---- MODULE Spec2Model ----
(***************************************************************************)
(* A state-machine model of the Housing Hub backend (src/backend/server.js).*)
(* The document store is modelled collection by collection, every await of *)
(* a handler is a point where other handlers may run, and the websocket    *)
(* relay is modelled with its process-wide registry `clients`.             *)
(* The browser session of src/frontend/src/index.js (AuthProvider and      *)
(* AuthForm over localStorage) is modelled next to it.                     *)
(***************************************************************************)
EXTENDS Integers, Sequences, FiniteSets, TLC

\* ------------------------------------------------------------------ bounds
MaxReq == 2        \* handlers that may be suspended at an await at one time
MaxProps == 2      \* Property ids ever allocated
MaxConvs == 2      \* Conversation ids ever allocated
MaxNotifs == 2     \* Notification documents ever created
MaxViews == 1      \* PropertyView documents ever created
MaxMsgs == 2       \* Message documents ever created
MaxConns == 2      \* websocket connections ever accepted

\* ---------------------------------------------------------------- universe
Students == {"s1", "s2"}
Landlords == {"l1", "l2"}
Admins == {"a1"}
UserIds == Students \cup Landlords \cup Admins
NoUser == "none"

PropIds == 1..MaxProps
ConvIds == 1..MaxConvs
ConnIds == 1..MaxConns
ReqIds == 1..MaxReq
NoId == 0

\* user_type of the account each id was signed up with (UserSchema.user_type)
UserTypeOf(u) ==
    IF u \in Students THEN "student"
    ELSE IF u \in Landlords THEN "landlord" ELSE "admin"

\* The password every account was created with, and what a caller may type.
Password == "pw"
\* bcrypt.hash(password, 10): the stored digest of a password
bcryptHash(password) == <<"$2b", password>>
\* the email address and the username each seeded account signed up with
EmailOf(u) == <<u>>
UsernameOf(u) == <<u>>
Passwords == {"", "pw", "wrong"}

\* A signed token as issued by signup/login: {userId, userType}; "forged" is a
\* token whose signature does not verify, NoToken a request without the header.
NoToken == [userId |-> NoUser, userType |-> "none", sig |-> "absent"]
IssuedTokens == {[userId |-> u, userType |-> UserTypeOf(u), sig |-> "good"] : u \in UserIds}
ForgedTokens == {[userId |-> u, userType |-> UserTypeOf(u), sig |-> "bad"] : u \in {"s1", "l1"}}
Tokens == IssuedTokens \cup ForgedTokens
Tok(u) == [userId |-> u, userType |-> UserTypeOf(u), sig |-> "good"]
Forged(u) == [userId |-> u, userType |-> UserTypeOf(u), sig |-> "bad"]

VARIABLES
    users,          \* User collection: id -> document
    properties,     \* Property collection: id -> document
    favorites,      \* Favorite collection, a bag of documents
    reviews,        \* Review collection, a bag of documents
    conversations,  \* Conversation collection: id -> document
    messages,       \* Message collection, in creation order
    views,          \* PropertyView collection, a bag of documents
    notifications,  \* Notification collection, in creation order
    nextPropId,     \* next fresh Property _id
    nextConvId,     \* next fresh Conversation _id
    clients,        \* the relay's Map: user id -> connection
    conns,          \* websocket connections: id -> [state, userId, userType]
    sent,           \* frames the server has written to connections
    timers,         \* pending setTimeout callbacks of the relay
    reqs,           \* handlers suspended at an await: slot -> frame
    resp,           \* the response most recently sent
    localStorage,   \* the browser's localStorage: the entries token and currentUser
    currentUser,    \* AuthProvider's React state currentUser
    loading,        \* AuthProvider's React state loading
    authForm        \* AuthForm: the request it awaits and the error it shows

vars == <<users, properties, favorites, reviews, conversations, messages, views,
          notifications, nextPropId, nextConvId, clients, conns, sent, timers,
          reqs, resp, localStorage, currentUser, loading, authForm>>

store == <<users, properties, favorites, reviews, conversations, messages, views,
           notifications, nextPropId, nextConvId>>
relay == <<clients, conns, sent, timers>>
client == <<localStorage, currentUser, loading, authForm>>

\* ------------------------------------------------------------------ helpers
\* Collections whose documents carry nothing but their fields are bags of
\* documents (document -> number of copies): insertOne, deleteOne /
\* findOneAndDelete, deleteMany, countDocuments
NoDocs == [d \in {} |-> 0]
InsertOne(coll, doc) ==
    IF doc \in DOMAIN coll THEN [coll EXCEPT ![doc] = @ + 1]
    ELSE [d \in DOMAIN coll \cup {doc} |-> IF d = doc THEN 1 ELSE coll[d]]
DeleteOne(coll, doc) ==
    IF doc \notin DOMAIN coll THEN coll
    ELSE IF coll[doc] > 1 THEN [coll EXCEPT ![doc] = @ - 1]
    ELSE [d \in DOMAIN coll \ {doc} |-> coll[d]]
\* deleteMany, given the documents the filter matches
DeleteMany(coll, docs) == [d \in DOMAIN coll \ docs |-> coll[d]]
\* countDocuments, given the documents the filter matches
RECURSIVE CountDocuments(_, _)
CountDocuments(coll, docs) ==
    IF docs = {} THEN 0
    ELSE LET d == CHOOSE e \in docs : TRUE
         IN coll[d] + CountDocuments(coll, docs \ {d})

Idle == [kind |-> "idle"]
NoResp == [op |-> "none", user |-> NoUser, status |-> 0, body |-> <<>>]
FreeSlots == {r \in ReqIds : reqs[r].kind = "idle"}
\* a new handler takes the lowest free slot
NewSlot == CHOOSE r \in FreeSlots : \A q \in FreeSlots : r <= q

\* jwt.verify(token, JWT_SECRET, cb): err unless the signature verifies
jwtVerify(t) == t.sig = "good"

\* authenticateToken: 401 without a token, 403 when it does not verify, 0 = next()
authenticateToken(t) ==
    IF t = NoToken THEN 401 ELSE IF ~jwtVerify(t) THEN 403 ELSE 0

\* ------------------------------------------------------- the browser session
\* React's currentUser: null, or the object AuthForm builds from the response
null == [uid |-> NoUser, userType |-> "none"]
\* a localStorage entry that is not set (getItem returns null), the text
\* JSON.stringify makes of a user object, and JSON.parse of a stored text
NoString == [json |-> FALSE, value |-> null]
JSONstringify(user) == [json |-> TRUE, value |-> user]
JSONparse(text) == text.value
\* AuthForm awaits no response
NoRequest == [isLogin |-> FALSE, user |-> NoUser]

\* ------------------------------------------------------------------- Init
\* The server has just started (no socket, no handler running) against a store
\* that holds the accounts and one listing of landlord l1.
Init ==
    /\ users = [u \in UserIds |->
                  [username |-> UsernameOf(u), email |-> EmailOf(u),
                   user_type |-> UserTypeOf(u), isVerified |-> FALSE,
                   verificationStatus |-> "none", verificationDocument |-> "",
                   password |-> bcryptHash(Password), bio |-> ""]]
    /\ properties = (1 :> [landlord_id |-> "l1", title |-> "t1", images |-> 0])
    /\ favorites = NoDocs
    /\ reviews = NoDocs
    /\ conversations = <<>>
    /\ messages = <<>>
    /\ views = NoDocs
    /\ notifications = <<>>
    /\ nextPropId = 2
    /\ nextConvId = 1
    /\ clients = <<>>
    /\ conns = [c \in ConnIds |-> [state |-> "none", userId |-> NoUser, userType |-> "none"]]
    /\ sent = {}
    /\ timers = <<>>
    /\ reqs = [r \in ReqIds |-> Idle]
    /\ resp = NoResp
    /\ localStorage = [token |-> NoToken, currentUser |-> NoString]
    /\ currentUser = null
    /\ loading = TRUE
    /\ authForm = [pending |-> NoRequest, error |-> ""]


\* --------------------------------------------------------------- responses
\* body: the ids the response carries (a conversation id, the message list)
RespondBody(op, user, status, body) ==
    resp' = [op |-> op, user |-> user, status |-> status, body |-> body]
Respond(op, user, status) == RespondBody(op, user, status, <<>>)
Finish(r) == reqs' = [reqs EXCEPT ![r] = Idle]
Suspend(frame) == /\ FreeSlots # {}
                  /\ reqs' = [reqs EXCEPT ![NewSlot] = frame]
InFlight(kind) == {r \in ReqIds : reqs[r].kind = kind}

\* clients.get(id) when present and readyState === OPEN: the connections a
\* frame addressed to user id is written to (none or one)
OpenClient(id) ==
    IF id \in DOMAIN clients /\ conns[clients[id]].state = "open"
    THEN {clients[id]} ELSE {}

\* ---------------------------------------------------------------- favorites
HasFavorite(u, p) == [user_id |-> u, property_id |-> p] \in DOMAIN favorites

\* FavoriteSchema.index({user_id: 1, property_id: 1}, {unique: true}): whether
\* the index accepts the insert of a document for (u, p)
FavoriteIndexOpen(u, p) == TRUE
FavoriteIndex(u, p) == ~HasFavorite(u, p)

\* POST /api/favorites up to and including favorite.save(); a rejected insert
\* throws into the catch-all
PostFavorites(t, property_id) ==
    /\ Len(notifications) + Cardinality(InFlight("postFavorite")) < MaxNotifs
    /\ IF authenticateToken(t) # 0
       THEN /\ Respond("POST /api/favorites", NoUser, authenticateToken(t))
            /\ UNCHANGED <<store, relay, reqs>>
       ELSE IF property_id = NoId \/ ~FavoriteIndex(t.userId, property_id)
       THEN /\ Respond("POST /api/favorites", t.userId, 500)
            /\ UNCHANGED <<store, relay, reqs>>
       ELSE /\ favorites' = InsertOne(favorites,
                               [user_id |-> t.userId, property_id |-> property_id])
            /\ Suspend([kind |-> "postFavorite", pc |-> "findProperty",
                        userId |-> t.userId, property_id |-> property_id,
                        landlord_id |-> NoUser])
            /\ UNCHANGED <<users, properties, reviews, conversations, messages,
                           views, notifications, nextPropId, nextConvId, relay, resp>>
    /\ UNCHANGED client

\* ... Property.findById(property_id) and the branch on its owner
PostFavorites_findProperty(r) ==
    /\ reqs[r].kind = "postFavorite" /\ reqs[r].pc = "findProperty"
    /\ LET pid == reqs[r].property_id
       IN IF pid \in DOMAIN properties /\ properties[pid].landlord_id # reqs[r].userId
          THEN /\ reqs' = [reqs EXCEPT ![r].pc = "notify",
                                       ![r].landlord_id = properties[pid].landlord_id]
               /\ UNCHANGED resp
          ELSE /\ Respond("POST /api/favorites", reqs[r].userId, 201)
               /\ Finish(r)
    /\ UNCHANGED <<store, relay>>
    /\ UNCHANGED client

\* ... notification.save(), the push to the landlord's connection, 201
PostFavorites_notify(r) ==
    /\ reqs[r].kind = "postFavorite" /\ reqs[r].pc = "notify"
    /\ notifications' = Append(notifications,
           [recipient_id |-> reqs[r].landlord_id, sender_id |-> reqs[r].userId,
            link |-> reqs[r].property_id, isRead |-> FALSE])
    /\ sent' = sent \cup {[to |-> c, type |-> "newNotification",
                           id |-> Len(notifications) + 1] :
                          c \in OpenClient(reqs[r].landlord_id)}
    /\ Respond("POST /api/favorites", reqs[r].userId, 201)
    /\ Finish(r)
    /\ UNCHANGED <<users, properties, favorites, reviews, conversations, messages,
                   views, nextPropId, nextConvId, clients, conns, timers>>
    /\ UNCHANGED client

\* DELETE /api/favorites/:propertyId: Favorite.findOneAndDelete
DeleteFavorites(t, propertyId) ==
    /\ IF authenticateToken(t) # 0
       THEN /\ Respond("DELETE /api/favorites", NoUser, authenticateToken(t))
            /\ UNCHANGED favorites
       ELSE /\ favorites' = DeleteOne(favorites,
                  [user_id |-> t.userId, property_id |-> propertyId])
            /\ Respond("DELETE /api/favorites", t.userId, 200)
    /\ UNCHANGED <<users, properties, reviews, conversations, messages, views,
                   notifications, nextPropId, nextConvId, relay, reqs>>
    /\ UNCHANGED client


\* --------------------------------------------------------------- properties
Titles == {"t1", "t2"}
\* req.body of POST/PUT /api/properties: landlord_id = NoUser when the body
\* carries none; valid = the required paths of PropertySchema are all present
PropertyBodies == [title : Titles, landlord_id : {NoUser, "l2"}, valid : BOOLEAN]
\* req.files of upload.array('images', 5), bounded
MaxFiles == 2

\* user.userType as the handler reads it off the User document: the schema
\* path is user_type, so the document has no userType
DocUserType(u) == "undefined"

\* POST /api/properties up to User.findById and the gatekeeper check
PostProperties(t, body, nfiles) ==
    /\ nextPropId + Cardinality(InFlight("postProperty")) <= MaxProps
    /\ IF authenticateToken(t) # 0
       THEN /\ Respond("POST /api/properties", NoUser, authenticateToken(t))
            /\ UNCHANGED reqs
       ELSE IF t.userId \notin DOMAIN users
       THEN /\ Respond("POST /api/properties", t.userId, 500)
            /\ UNCHANGED reqs
       ELSE IF DocUserType(t.userId) = "landlord" /\ ~users[t.userId].isVerified
       THEN /\ Respond("POST /api/properties", t.userId, 403)
            /\ UNCHANGED reqs
       ELSE /\ Suspend([kind |-> "postProperty",
                        pc |-> IF nfiles > 0 THEN "upload" ELSE "save",
                        userId |-> t.userId, body |-> body,
                        files |-> nfiles, uploaded |-> 0])
            /\ UNCHANGED resp
    /\ UNCHANGED <<store, relay>>
    /\ UNCHANGED client

\* the upload_stream callback: reject(error) on an error, else resolve(result)
ResolvesAlways(ok) == TRUE
Resolves(ok) == ok

\* ... one cloudinary upload_stream of the loop: resolve, or reject into the catch
PostProperties_upload(r, ok) ==
    /\ reqs[r].kind = "postProperty" /\ reqs[r].pc = "upload"
    /\ IF Resolves(ok)
       THEN /\ reqs' = [reqs EXCEPT ![r].uploaded = @ + 1,
                           ![r].pc = IF reqs[r].uploaded + 1 = reqs[r].files
                                     THEN "save" ELSE "upload"]
            /\ UNCHANGED resp
       ELSE /\ Respond("POST /api/properties", reqs[r].userId, 500)
            /\ Finish(r)
    /\ UNCHANGED <<store, relay>>
    /\ UNCHANGED client

\* ... newProperty.save(): landlord_id is set after the spread of req.body
PostProperties_save(r) ==
    /\ reqs[r].kind = "postProperty" /\ reqs[r].pc = "save"
    /\ IF reqs[r].body.valid
       THEN /\ properties' = properties @@
                  (nextPropId :> [landlord_id |-> reqs[r].userId,
                                  title |-> reqs[r].body.title,
                                  images |-> reqs[r].uploaded])
            /\ nextPropId' = nextPropId + 1
            /\ Respond("POST /api/properties", reqs[r].userId, 201)
       ELSE /\ Respond("POST /api/properties", reqs[r].userId, 500)
            /\ UNCHANGED <<properties, nextPropId>>
    /\ Finish(r)
    /\ UNCHANGED <<users, favorites, reviews, conversations, messages, views,
                   notifications, nextConvId, relay>>
    /\ UNCHANGED client

\* property.landlord_id.toString() !== req.user.userId
NotOwnerNever(property, userId) == FALSE
NotOwner(property, userId) == property.landlord_id # userId

\* PUT and DELETE /api/properties/:id up to Property.findById and the owner check
CheckProperty(op, kind, t, id, body) ==
    /\ IF authenticateToken(t) # 0
       THEN /\ Respond(op, NoUser, authenticateToken(t))
            /\ UNCHANGED reqs
       ELSE IF id \notin DOMAIN properties
       THEN /\ Respond(op, t.userId, 404)
            /\ UNCHANGED reqs
       ELSE IF NotOwner(properties[id], t.userId)
       THEN /\ Respond(op, t.userId, 403)
            /\ UNCHANGED reqs
       ELSE /\ Suspend([kind |-> kind, pc |-> "write", userId |-> t.userId,
                        id |-> id, body |-> body,
                        owner |-> properties[id].landlord_id])
            /\ UNCHANGED resp
    /\ UNCHANGED <<store, relay>>
    /\ UNCHANGED client

PutProperties(t, id, body) ==
    CheckProperty("PUT /api/properties/:id", "putProperty", t, id, body)

\* ... Property.findByIdAndUpdate(id, {...req.body}, {new: true})
PutProperties_update(r) ==
    /\ reqs[r].kind = "putProperty" /\ reqs[r].pc = "write"
    /\ LET id == reqs[r].id
           b == reqs[r].body
       IN properties' =
             IF id \in DOMAIN properties
             THEN [properties EXCEPT
                     ![id].title = b.title,
                     ![id].landlord_id = IF b.landlord_id = NoUser THEN @
                                         ELSE b.landlord_id]
             ELSE properties
    /\ Respond("PUT /api/properties/:id", reqs[r].userId, 200)
    /\ Finish(r)
    /\ UNCHANGED <<users, favorites, reviews, conversations, messages, views,
                   notifications, nextPropId, nextConvId, relay>>
    /\ UNCHANGED client

DeleteProperties(t, id) ==
    CheckProperty("DELETE /api/properties/:id", "deleteProperty", t, id,
                  [title |-> "t1", landlord_id |-> NoUser, valid |-> TRUE])

\* ... Property.findByIdAndDelete(id)
DeleteProperties_delete(r) ==
    /\ reqs[r].kind = "deleteProperty" /\ reqs[r].pc = "write"
    /\ properties' = [p \in DOMAIN properties \ {reqs[r].id} |-> properties[p]]
    /\ Respond("DELETE /api/properties/:id", reqs[r].userId, 200)
    /\ Finish(r)
    /\ UNCHANGED <<users, favorites, reviews, conversations, messages, views,
                   notifications, nextPropId, nextConvId, relay>>
    /\ UNCHANGED client

\* POST /api/properties/:propertyId/view
PostView(propertyId) ==
    /\ CountDocuments(views, DOMAIN views) < MaxViews
    /\ views' = InsertOne(views, [property_id |-> propertyId])
    /\ Respond("POST /api/properties/:id/view", NoUser, 200)
    /\ UNCHANGED <<users, properties, favorites, reviews, conversations, messages,
                   notifications, nextPropId, nextConvId, relay, reqs>>
    /\ UNCHANGED client


\* ------------------------------------------------------------------ reviews
MinRating == 1
MaxRating == 5
MaxCommentLength == 1000
\* req.body.rating (0 = absent) and the length of req.body.comment (0 = absent)
Ratings == {0, 3, 6}
CommentLengths == {0, 5, 1001}

HasReview(p, u) == \E d \in DOMAIN reviews : d.property_id = p /\ d.user_id = u

\* ReviewSchema.index({property_id: 1, user_id: 1}, {unique: true})
ReviewIndexOpen(p, u) == TRUE
ReviewIndex(p, u) == ~HasReview(p, u)

\* the schema validators of rating and comment, run by save() before the insert
ReviewValid(rating, commentLength) ==
    /\ rating >= MinRating /\ rating <= MaxRating
    /\ commentLength <= MaxCommentLength

\* POST /api/properties/:propertyId/reviews; the insert is the handler's only
\* write, and the read-back that follows it changes nothing
PostReviews(t, propertyId, rating, commentLength) ==
    /\ LET op == "POST /api/properties/:id/reviews"
       IN IF authenticateToken(t) # 0
          THEN Respond(op, NoUser, authenticateToken(t)) /\ UNCHANGED reviews
          ELSE IF t.userType # "student"
          THEN Respond(op, t.userId, 403) /\ UNCHANGED reviews
          ELSE IF rating = 0 \/ commentLength = 0
          THEN Respond(op, t.userId, 400) /\ UNCHANGED reviews
          ELSE IF ~ReviewValid(rating, commentLength)
          THEN Respond(op, t.userId, 500) /\ UNCHANGED reviews
          ELSE IF ~ReviewIndex(propertyId, t.userId)
          THEN Respond(op, t.userId, 409) /\ UNCHANGED reviews
          ELSE /\ reviews' = InsertOne(reviews,
                     [property_id |-> propertyId, user_id |-> t.userId,
                      rating |-> rating])
               /\ Respond(op, t.userId, 201)
    /\ UNCHANGED <<users, properties, favorites, conversations, messages, views,
                   notifications, nextPropId, nextConvId, relay, reqs>>
    /\ UNCHANGED client

\* ------------------------------------------------------------ conversations
ConvsOf(property_id, student_id) ==
    {c \in DOMAIN conversations :
        /\ conversations[c].property_id = property_id
        /\ conversations[c].student_id = student_id}

\* Conversation.findOne({property_id, student_id}): the first match
FindConversation(property_id, student_id) ==
    CHOOSE c \in ConvsOf(property_id, student_id) :
        \A d \in ConvsOf(property_id, student_id) : c <= d

\* POST /api/conversations up to Conversation.findOne
PostConversations(t, property_id, landlord_id) ==
    /\ nextConvId + Cardinality(InFlight("postConversation")) <= MaxConvs
    /\ IF authenticateToken(t) # 0
       THEN /\ Respond("POST /api/conversations", NoUser, authenticateToken(t))
            /\ UNCHANGED reqs
       ELSE IF ConvsOf(property_id, t.userId) # {}
       THEN /\ RespondBody("POST /api/conversations", t.userId, 200,
                           <<FindConversation(property_id, t.userId)>>)
            /\ UNCHANGED reqs
       ELSE /\ Suspend([kind |-> "postConversation", pc |-> "save",
                        userId |-> t.userId, property_id |-> property_id,
                        landlord_id |-> landlord_id])
            /\ UNCHANGED resp
    /\ UNCHANGED <<store, relay>>
    /\ UNCHANGED client

\* ... newConvo.save(): the three ids are required, nothing else is checked
PostConversations_save(r) ==
    /\ reqs[r].kind = "postConversation" /\ reqs[r].pc = "save"
    /\ IF reqs[r].landlord_id = NoUser \/ reqs[r].property_id = NoId
       THEN /\ Respond("POST /api/conversations", reqs[r].userId, 500)
            /\ UNCHANGED <<conversations, nextConvId>>
       ELSE /\ conversations' = conversations @@
                  (nextConvId :> [property_id |-> reqs[r].property_id,
                                  student_id |-> reqs[r].userId,
                                  landlord_id |-> reqs[r].landlord_id])
            /\ nextConvId' = nextConvId + 1
            /\ RespondBody("POST /api/conversations", reqs[r].userId, 201,
                           <<nextConvId>>)
    /\ Finish(r)
    /\ UNCHANGED <<users, properties, favorites, reviews, messages, views,
                   notifications, nextPropId, relay>>
    /\ UNCHANGED client

\* the $or filter of the messages route: the caller is one of the two parties
IsParticipantAny(convo, userId) == TRUE
IsParticipant(convo, userId) ==
    convo.student_id = userId \/ convo.landlord_id = userId

\* Message.find({conversation_id}).sort({createdAt: 'asc'}), as message ids
MessagesOfDescending(id) ==
    LET asc == SelectSeq([i \in 1..Len(messages) |-> i],
                         LAMBDA i : messages[i].conversation_id = id)
    IN [j \in 1..Len(asc) |-> asc[Len(asc) + 1 - j]]
MessagesOf(id) == SelectSeq([i \in 1..Len(messages) |-> i],
                            LAMBDA i : messages[i].conversation_id = id)

\* GET /api/conversations/:id/messages up to Conversation.findOne
GetMessages(t, id) ==
    /\ IF authenticateToken(t) # 0
       THEN /\ Respond("GET /api/conversations/:id/messages", NoUser,
                       authenticateToken(t))
            /\ UNCHANGED reqs
       ELSE IF id \notin DOMAIN conversations
               \/ ~IsParticipant(conversations[id], t.userId)
       THEN /\ Respond("GET /api/conversations/:id/messages", t.userId, 403)
            /\ UNCHANGED reqs
       ELSE /\ Suspend([kind |-> "getMessages", pc |-> "find",
                        userId |-> t.userId, id |-> id])
            /\ UNCHANGED resp
    /\ UNCHANGED <<store, relay>>
    /\ UNCHANGED client

\* ... Message.find and res.json(messages)
GetMessages_find(r) ==
    /\ reqs[r].kind = "getMessages" /\ reqs[r].pc = "find"
    /\ RespondBody("GET /api/conversations/:id/messages", reqs[r].userId, 200,
                   MessagesOf(reqs[r].id))
    /\ Finish(r)
    /\ UNCHANGED <<store, relay>>
    /\ UNCHANGED client


\* ------------------------------------------------------------------ accounts
\* bcrypt.compare(password, user.password)
bcryptCompareAny(password, user) == TRUE
bcryptCompare(password, user) == bcryptHash(password) = user.password

PropertiesOf(userId) ==
    {p \in DOMAIN properties : properties[p].landlord_id = userId}

\* the first deleteMany of each branch of delete-account, by req.user.userType
FirstDelete(userType) ==
    IF userType = "landlord" THEN "findProperties"
    ELSE IF userType = "student" THEN "deleteFavoritesOfUser"
    ELSE "deleteUser"

\* POST /api/profile/delete-account up to User.findById and bcrypt.compare
DeleteAccount(t, password) ==
    /\ LET op == "POST /api/profile/delete-account"
       IN IF authenticateToken(t) # 0
          THEN Respond(op, NoUser, authenticateToken(t)) /\ UNCHANGED reqs
          ELSE IF password = ""
          THEN Respond(op, t.userId, 400) /\ UNCHANGED reqs
          ELSE IF t.userId \notin DOMAIN users
          THEN Respond(op, t.userId, 404) /\ UNCHANGED reqs
          ELSE IF ~bcryptCompare(password, users[t.userId])
          THEN Respond(op, t.userId, 401) /\ UNCHANGED reqs
          ELSE /\ Suspend([kind |-> "deleteAccount", pc |-> FirstDelete(t.userType),
                           userId |-> t.userId, propertyIds |-> {}])
               /\ UNCHANGED resp
    /\ UNCHANGED <<store, relay>>
    /\ UNCHANGED client

\* ... one awaited store operation of the cascade per step
DeleteAccount_step(r) ==
    /\ reqs[r].kind = "deleteAccount"
    /\ LET u == reqs[r].userId
           ids == reqs[r].propertyIds
           goto(pc) == reqs' = [reqs EXCEPT ![r].pc = pc]
       IN CASE reqs[r].pc = "findProperties" ->
                 \* Property.find({landlord_id: userId}).map(p => p._id)
                 /\ reqs' = [reqs EXCEPT ![r].pc = "deleteProperties",
                                         ![r].propertyIds = PropertiesOf(u)]
                 /\ UNCHANGED <<store, resp>>
            [] reqs[r].pc = "deleteProperties" ->
                 \* Property.deleteMany({landlord_id: userId})
                 /\ properties' = [p \in DOMAIN properties \ PropertiesOf(u) |->
                                      properties[p]]
                 /\ goto("deleteFavorites")
                 /\ UNCHANGED <<users, favorites, reviews, conversations, messages,
                                views, notifications, nextPropId, nextConvId, resp>>
            [] reqs[r].pc = "deleteFavorites" ->
                 \* Favorite.deleteMany({property_id: {$in: propertyIds}})
                 /\ favorites' = DeleteMany(favorites, {f \in DOMAIN favorites : f.property_id \in ids})
                 /\ goto("deleteConversations")
                 /\ UNCHANGED <<users, properties, reviews, conversations, messages,
                                views, notifications, nextPropId, nextConvId, resp>>
            [] reqs[r].pc = "deleteConversations" ->
                 \* Conversation.deleteMany({property_id: {$in: propertyIds}})
                 /\ conversations' =
                       [c \in {d \in DOMAIN conversations :
                                 conversations[d].property_id \notin ids} |->
                           conversations[c]]
                 /\ goto("deleteViews")
                 /\ UNCHANGED <<users, properties, favorites, reviews, messages,
                                views, notifications, nextPropId, nextConvId, resp>>
            [] reqs[r].pc = "deleteViews" ->
                 \* PropertyView.deleteMany({property_id: {$in: propertyIds}})
                 /\ views' = DeleteMany(views, {v \in DOMAIN views : v.property_id \in ids})
                 /\ goto("deleteUser")
                 /\ UNCHANGED <<users, properties, favorites, reviews, conversations,
                                messages, notifications, nextPropId, nextConvId, resp>>
            [] reqs[r].pc = "deleteFavoritesOfUser" ->
                 \* Favorite.deleteMany({user_id: userId})
                 /\ favorites' = DeleteMany(favorites, {f \in DOMAIN favorites : f.user_id = u})
                 /\ goto("deleteConversationsOfUser")
                 /\ UNCHANGED <<users, properties, reviews, conversations, messages,
                                views, notifications, nextPropId, nextConvId, resp>>
            [] reqs[r].pc = "deleteConversationsOfUser" ->
                 \* Conversation.deleteMany({student_id: userId})
                 /\ conversations' =
                       [c \in {d \in DOMAIN conversations :
                                 conversations[d].student_id # u} |->
                           conversations[c]]
                 /\ goto("deleteUser")
                 /\ UNCHANGED <<users, properties, favorites, reviews, messages,
                                views, notifications, nextPropId, nextConvId, resp>>
            [] reqs[r].pc = "deleteUser" ->
                 \* User.findByIdAndDelete(userId) and the 200 response
                 /\ users' = [v \in DOMAIN users \ {u} |-> users[v]]
                 /\ Respond("POST /api/profile/delete-account", u, 200)
                 /\ Finish(r)
                 /\ UNCHANGED <<properties, favorites, reviews, conversations,
                                messages, views, notifications, nextPropId,
                                nextConvId>>
    /\ UNCHANGED relay
    /\ UNCHANGED client

\* PUT /api/profile/update-bio: user.save() writes the modified path only
Bios == {"", "b1"}
UpdateBio(t, bio) ==
    /\ LET op == "PUT /api/profile/update-bio"
       IN IF authenticateToken(t) # 0
          THEN Respond(op, NoUser, authenticateToken(t)) /\ UNCHANGED users
          ELSE IF t.userId \notin DOMAIN users
          THEN Respond(op, t.userId, 404) /\ UNCHANGED users
          ELSE /\ users' = [users EXCEPT ![t.userId].bio = bio]
               /\ Respond(op, t.userId, 200)
    /\ UNCHANGED <<properties, favorites, reviews, conversations, messages, views,
                   notifications, nextPropId, nextConvId, relay, reqs>>
    /\ UNCHANGED client

\* -------------------------------------------------------------- verification
\* Who sends a request to a route that reads no credentials: any account
\* holder, or nobody the server knows
Callers == UserIds \cup {NoUser}
DocumentImages == {"", "img"}

\* POST /api/upload-verification: no authenticateToken, userId from the body
UploadVerification(caller, userId, documentImage) ==
    /\ LET op == "POST /api/upload-verification"
       IN IF userId = NoUser \/ documentImage = ""
          THEN Respond(op, caller, 400) /\ UNCHANGED users
          ELSE IF userId \notin DOMAIN users
          THEN Respond(op, caller, 404) /\ UNCHANGED users
          ELSE /\ users' = [users EXCEPT
                              ![userId].verificationStatus = "pending",
                              ![userId].verificationDocument = documentImage]
               /\ Respond(op, caller, 200)
    /\ UNCHANGED <<properties, favorites, reviews, conversations, messages, views,
                   notifications, nextPropId, nextConvId, relay, reqs>>
    /\ UNCHANGED client

VerifyActions == {"approve", "reject", "other"}

\* POST /api/admin/verify-action: no authenticateToken, no role check
VerifyAction(caller, userId, action) ==
    /\ LET op == "POST /api/admin/verify-action"
       IN IF action \notin {"approve", "reject"}
          THEN Respond(op, caller, 400) /\ UNCHANGED users
          ELSE /\ users' =
                     IF userId \in DOMAIN users
                     THEN [users EXCEPT
                             ![userId].verificationStatus =
                                 IF action = "approve" THEN "approved" ELSE "rejected",
                             ![userId].isVerified = (action = "approve")]
                     ELSE users
               /\ Respond(op, caller, 200)
    /\ UNCHANGED <<properties, favorites, reviews, conversations, messages, views,
                   notifications, nextPropId, nextConvId, relay, reqs>>
    /\ UNCHANGED client


\* -------------------------------------------------------------------- relay
\* Map.prototype.set and Map.prototype.delete on `clients`
MapSetIfAbsent(m, k, v) == [x \in DOMAIN m \cup {k} |-> IF x \in DOMAIN m THEN m[x] ELSE v]
MapSet(m, k, v) == [x \in DOMAIN m \cup {k} |-> IF x = k THEN v ELSE m[x]]
MapDelete(m, k) == [x \in DOMAIN m \ {k} |-> m[x]]

\* message bodies as character sequences
Contents == {<<>>, <<"h", "i">>, <<"H", "e", "L", "P">>}
AutoReply == <<"a", "u", "t", "o">>

\* String.prototype.toLowerCase, on the letters message bodies are made of
LowerChar(ch) ==
    CASE ch = "H" -> "h" [] ch = "E" -> "e" [] ch = "L" -> "l" [] ch = "P" -> "p"
      [] OTHER -> ch
toLowerCase(str) == [i \in 1..Len(str) |-> LowerChar(str[i])]
\* String.prototype.includes
includes(str, sub) ==
    \E i \in 0..(Len(str) - Len(sub)) : SubSeq(str, i + 1, i + Len(sub)) = sub

\* wss.on('connection')
WsConnect(c) ==
    /\ conns[c].state = "none"
    /\ conns' = [conns EXCEPT ![c].state = "open"]
    /\ UNCHANGED <<store, clients, sent, timers, reqs, resp>>
    /\ UNCHANGED client

\* a frame {type: 'auth', token}: register the socket, or close it
WsAuth(c, t) ==
    /\ conns[c].state = "open"
    /\ IF jwtVerify(t)
       THEN /\ clients' = MapSet(clients, t.userId, c)
            /\ conns' = [conns EXCEPT ![c].userId = t.userId,
                                      ![c].userType = t.userType]
       ELSE /\ conns' = [conns EXCEPT ![c].state = "closing"]
            /\ UNCHANGED clients
    /\ UNCHANGED <<store, sent, timers, reqs, resp>>
    /\ UNCHANGED client

\* ws.on('close')
WsClose(c) ==
    /\ conns[c].state \in {"open", "closing"}
    /\ conns' = [conns EXCEPT ![c].state = "closed"]
    /\ clients' = IF conns[c].userId # NoUser
                  THEN MapDelete(clients, conns[c].userId) ELSE clients
    /\ UNCHANGED <<store, sent, timers, reqs, resp>>
    /\ UNCHANGED client

\* Message documents the suspended relay handlers and timers may still create
PendingMessages ==
    LET Of(r) == IF reqs[r].kind = "askAi" THEN (IF reqs[r].pc = "fetch" THEN 1 ELSE 0)
                 ELSE IF reqs[r].kind # "wsMessage" THEN 0
                 ELSE (IF reqs[r].pc = "save" THEN 1 ELSE 0)
                      + (IF includes(toLowerCase(reqs[r].content), <<"h", "e", "l", "p">>)
                         THEN 1 ELSE 0)
        Sum[S \in SUBSET ReqIds] ==
            IF S = {} THEN 0
            ELSE LET r == CHOOSE x \in S : TRUE IN Of(r) + Sum[S \ {r}]
    IN Sum[ReqIds] + Len(timers)

\* Conversation.findById: the document, or null when no conversation has the id
NoConversation == [property_id |-> NoId, student_id |-> NoUser, landlord_id |-> NoUser]
FindByIdAlways(id) ==
    IF id \in DOMAIN conversations THEN conversations[id]
    ELSE [property_id |-> 1, student_id |-> "s1", landlord_id |-> "l1"]
FindById(id) ==
    IF id \in DOMAIN conversations THEN conversations[id] ELSE NoConversation

\* the test `ws.userId` of the chat branch: the socket has authenticated
AuthenticatedAlways(ws) == TRUE
Authenticated(ws) == ws.userId # NoUser

\* a frame {type: 'message', payload} up to Conversation.findById
WsMessage(c, conversation_id, content) ==
    /\ conns[c].state = "open"
    /\ Len(messages) + PendingMessages + 2 <= MaxMsgs
    /\ IF ~Authenticated(conns[c]) \/ FindById(conversation_id) = NoConversation
       THEN UNCHANGED reqs
       ELSE Suspend([kind |-> "wsMessage", pc |-> "save", conn |-> c,
                     conversation_id |-> conversation_id, content |-> content,
                     student_id |-> FindById(conversation_id).student_id,
                     landlord_id |-> FindById(conversation_id).landlord_id,
                     id |-> NoId])
    /\ UNCHANGED <<store, relay, resp>>
    /\ UNCHANGED client

\* ... new Message({sender_id: ws.userId}) and newMessage.save(); content is required
WsMessage_save(r) ==
    /\ reqs[r].kind = "wsMessage" /\ reqs[r].pc = "save"
    /\ IF reqs[r].content = <<>>
       THEN /\ Finish(r)
            /\ UNCHANGED messages
       ELSE /\ messages' = Append(messages,
                  [conversation_id |-> reqs[r].conversation_id,
                   sender_id |-> conns[reqs[r].conn].userId,
                   content |-> reqs[r].content])
            /\ reqs' = [reqs EXCEPT ![r].pc = "push", ![r].id = Len(messages) + 1]
    /\ UNCHANGED <<users, properties, favorites, reviews, conversations, views,
                   notifications, nextPropId, nextConvId, relay, resp>>
    /\ UNCHANGED client

\* the two ids a relayed message is pushed to
recipientId(student_id, landlord_id, userId) ==
    IF student_id = userId THEN landlord_id ELSE student_id

PushToEveryone(ids, id) ==
    {[to |-> c, type |-> "newMessage", id |-> id] :
        c \in {d \in ConnIds : conns[d].state = "open"}}
Push(ids, id) ==
    {[to |-> c, type |-> "newMessage", id |-> id] :
        c \in UNION {OpenClient(u) : u \in ids}}

\* ... the push to both parties and the scheduling of the canned reply
WsMessage_push(r) ==
    /\ reqs[r].kind = "wsMessage" /\ reqs[r].pc = "push"
    /\ LET ws == conns[reqs[r].conn]
           to == recipientId(reqs[r].student_id, reqs[r].landlord_id, ws.userId)
       IN /\ sent' = sent \cup Push({ws.userId, to}, reqs[r].id)
          /\ timers' =
                IF ws.userType = "student"
                   /\ includes(toLowerCase(reqs[r].content), <<"h", "e", "l", "p">>)
                THEN Append(timers, [conversation_id |-> reqs[r].conversation_id,
                                     landlord_id |-> reqs[r].landlord_id,
                                     senderId |-> ws.userId, recipientId |-> to])
                ELSE timers
    /\ Finish(r)
    /\ UNCHANGED <<store, clients, conns, resp>>
    /\ UNCHANGED client

\* the setTimeout callback up to botMessage.save(): timers of one delay fire
\* in the order they were set
BotReply ==
    /\ timers # <<>>
    /\ LET tm == Head(timers)
       IN /\ messages' = Append(messages,
                [conversation_id |-> tm.conversation_id,
                 sender_id |-> tm.landlord_id, content |-> AutoReply])
          /\ Suspend([kind |-> "botReply", pc |-> "push", id |-> Len(messages) + 1,
                      senderId |-> tm.senderId, recipientId |-> tm.recipientId])
    /\ timers' = Tail(timers)
    /\ UNCHANGED <<users, properties, favorites, reviews, conversations, views,
                   notifications, nextPropId, nextConvId, clients, conns, sent, resp>>
    /\ UNCHANGED client

\* ... the push of the canned reply to the two ids the chat handler resolved
BotReply_push(r) ==
    /\ reqs[r].kind = "botReply" /\ reqs[r].pc = "push"
    /\ sent' = sent \cup Push({reqs[r].senderId, reqs[r].recipientId}, reqs[r].id)
    /\ Finish(r)
    /\ UNCHANGED <<store, clients, conns, timers, resp>>
    /\ UNCHANGED client

\* -------------------------------------------------------------------- ask-ai
\* req.body.question ("" = absent) and the text the generation service returns
Questions == {"", "q"}
Answer == <<"a", "i">>
\* how the call to the generation service ends: fetch rejects, the status is
\* not ok, the body is no JSON, the JSON carries no answer text, or it does
FetchOutcomes == {"rejected", "notOk", "badJson", "noText", "text"}
HasTextAlways(outcome) == TRUE
HasText(outcome) == outcome = "text"

\* POST /api/conversations/:id/ask-ai up to Conversation.findById().populate();
\* configured: GEMINI_API_KEY is set in the environment
AskAi(t, id, question, configured) ==
    /\ Len(messages) + PendingMessages + 1 <= MaxMsgs
    /\ LET op == "POST /api/conversations/:id/ask-ai"
       IN IF authenticateToken(t) # 0
          THEN Respond(op, NoUser, authenticateToken(t)) /\ UNCHANGED reqs
          ELSE IF question = ""
          THEN Respond(op, t.userId, 400) /\ UNCHANGED reqs
          ELSE IF ~configured
          THEN Respond(op, t.userId, 500) /\ UNCHANGED reqs
          ELSE IF FindById(id) = NoConversation
                  \/ FindById(id).property_id \notin DOMAIN properties
          THEN Respond(op, t.userId, 404) /\ UNCHANGED reqs
          ELSE /\ Suspend([kind |-> "askAi", pc |-> "fetch", userId |-> t.userId,
                           conversation_id |-> id,
                           student_id |-> FindById(id).student_id,
                           landlord_id |-> FindById(id).landlord_id,
                           id |-> NoId])
               /\ UNCHANGED resp
    /\ UNCHANGED <<store, relay>>
    /\ UNCHANGED client

\* ... the fetch of the generation service and, on answer text, botMessage.save()
AskAi_fetch(r, outcome) ==
    /\ reqs[r].kind = "askAi" /\ reqs[r].pc = "fetch"
    /\ IF HasText(outcome)
       THEN /\ messages' = Append(messages,
                  [conversation_id |-> reqs[r].conversation_id,
                   sender_id |-> reqs[r].landlord_id, content |-> Answer])
            /\ reqs' = [reqs EXCEPT ![r].pc = "push", ![r].id = Len(messages) + 1]
            /\ UNCHANGED resp
       ELSE /\ Respond("POST /api/conversations/:id/ask-ai", reqs[r].userId, 500)
            /\ Finish(r)
            /\ UNCHANGED messages
    /\ UNCHANGED <<users, properties, favorites, reviews, conversations, views,
                   notifications, nextPropId, nextConvId, relay>>
    /\ UNCHANGED client

\* ... the push to the conversation's student and landlord and the 200
AskAi_push(r) ==
    /\ reqs[r].kind = "askAi" /\ reqs[r].pc = "push"
    /\ sent' = sent \cup Push({reqs[r].student_id, reqs[r].landlord_id}, reqs[r].id)
    /\ Respond("POST /api/conversations/:id/ask-ai", reqs[r].userId, 200)
    /\ Finish(r)
    /\ UNCHANGED <<store, clients, conns, timers>>
    /\ UNCHANGED client

\* ---------------------------------------------------------------- frontend
\* the accounts the visitor logs in to or signs up for
Visitors == {"s1", "s2", "l1"}
\* how api.post('/api/login' | '/api/signup') ends: 2xx with the account's
\* data, 401 (login only), or another error status
ApiOutcomes == {"ok", "401", "error"}

\* the page is loaded or reloaded: AuthProvider and AuthForm mount with their
\* initial state, localStorage is what the last visit left
Mount ==
    /\ currentUser' = null
    /\ loading' = TRUE
    /\ authForm' = [pending |-> NoRequest, error |-> ""]
    /\ UNCHANGED <<localStorage, store, relay, reqs, resp>>

\* if (storedUser && token): both entries are set
BothStored(storedUser, token) == storedUser # NoString /\ token # NoToken

\* AuthProvider's start-up effect initializeAuth
InitializeAuth ==
    /\ loading
    /\ LET storedUser == localStorage.currentUser
           token == localStorage.token
       IN IF BothStored(storedUser, token)
          THEN IF storedUser.json
               THEN /\ currentUser' = JSONparse(storedUser)
                    /\ UNCHANGED localStorage
               ELSE \* JSON.parse throws: localStorage.clear()
                    /\ localStorage' = [token |-> NoToken, currentUser |-> NoString]
                    /\ currentUser' = null
          ELSE /\ localStorage' = [token |-> NoToken, currentUser |-> NoString]
               /\ currentUser' = null
    /\ loading' = FALSE
    /\ UNCHANGED <<authForm, store, relay, reqs, resp>>

\* AuthForm.handleSubmit up to `await api.post(endpoint, payload)`; confirmed:
\* password === confirmPassword
HandleSubmit(isLogin, u, confirmed) ==
    /\ ~loading /\ authForm.pending = NoRequest
    /\ authForm' = IF ~isLogin /\ ~confirmed
                   THEN [authForm EXCEPT !.error = "Passwords do not match"]
                   ELSE [authForm EXCEPT !.pending = [isLogin |-> isLogin, user |-> u]]
    /\ UNCHANGED <<localStorage, currentUser, loading, store, relay, reqs, resp>>

\* ... the response interceptor and the rest of handleSubmit. On success
\* setCurrentUser and setItem("token") run, then the argument of the second
\* setItem reads the undeclared `response`: a ReferenceError, caught below
\* (err.response is undefined there), so the entry currentUser is not written
\* and navigate("/") is not reached
HandleSubmit_response(outcome) ==
    /\ ~loading /\ authForm.pending # NoRequest
    /\ outcome = "401" => authForm.pending.isLogin
    /\ LET u == authForm.pending.user
       IN CASE outcome = "ok" ->
                 /\ currentUser' = [uid |-> u, userType |-> UserTypeOf(u)]
                 /\ localStorage' = [localStorage EXCEPT !.token = Tok(u)]
                 /\ authForm' = [pending |-> NoRequest, error |-> "An error occurred."]
            [] outcome = "401" ->
                 /\ localStorage' = [token |-> NoToken, currentUser |-> NoString]
                 /\ authForm' = [pending |-> NoRequest,
                                 error |-> "Invalid email or password."]
                 /\ UNCHANGED currentUser
            [] outcome = "error" ->
                 /\ authForm' = [pending |-> NoRequest, error |-> "message"]
                 /\ UNCHANGED <<localStorage, currentUser>>
    /\ UNCHANGED <<loading, store, relay, reqs, resp>>

\* AuthProvider.logout
Logout ==
    /\ ~loading /\ currentUser # null
    /\ localStorage' = [token |-> NoToken, currentUser |-> NoString]
    /\ currentUser' = null
    /\ UNCHANGED <<loading, authForm, store, relay, reqs, resp>>

\* ------------------------------------------------------------ notifications
\* the filter {recipient_id: req.user.userId, isRead: false} of mark-read
UnreadOfAnyone(n, userId) == ~n.isRead
UnreadOf(n, userId) == n.recipient_id = userId /\ ~n.isRead

\* PUT /api/notifications/mark-read: Notification.updateMany($set isRead: true)
MarkRead(t) ==
    /\ LET op == "PUT /api/notifications/mark-read"
       IN IF authenticateToken(t) # 0
          THEN /\ Respond(op, NoUser, authenticateToken(t))
               /\ UNCHANGED notifications
          ELSE /\ notifications' =
                     [i \in 1..Len(notifications) |->
                         IF UnreadOf(notifications[i], t.userId)
                         THEN [notifications[i] EXCEPT !.isRead = TRUE]
                         ELSE notifications[i]]
               /\ Respond(op, t.userId, 200)
    /\ UNCHANGED <<users, properties, favorites, reviews, conversations, messages,
                   views, nextPropId, nextConvId, relay, reqs>>
    /\ UNCHANGED client

\* ------------------------------------------------------------------- signup
\* ids of the accounts that signups create
SignupIds == {"u1", "u2"}
NewUserId == CHOOSE u \in SignupIds \ DOMAIN users : TRUE

\* String.prototype.trim, the setter of UserSchema.username
RECURSIVE trim(_)
trim(str) ==
    IF str = <<>> THEN str
    ELSE IF Head(str) = " " THEN trim(Tail(str))
    ELSE IF str[Len(str)] = " " THEN trim(SubSeq(str, 1, Len(str) - 1))
    ELSE str

\* req.body of /api/signup; a missing field is the empty string
SignupBodies ==
    {[email |-> <<"e">>, username |-> <<"n">>, userType |-> "student", password |-> "pw"],
     [email |-> <<"E">>, username |-> <<"n", " ">>, userType |-> "landlord", password |-> "pw"],
     [email |-> <<"s1">>, username |-> <<"m">>, userType |-> "student", password |-> "pw"],
     [email |-> <<"p">>, username |-> <<"s1">>, userType |-> "student", password |-> "pw"],
     [email |-> <<"h">>, username |-> <<"k">>, userType |-> "owner", password |-> "pw"],
     [email |-> <<"h">>, username |-> <<"k">>, userType |-> "student", password |-> ""]}

\* User.findOne({email}) and User.findOne({username}): the filter is cast
\* through the schema's setters (lowercase, trim) as a saved value is
EmailTaken(email) == \E u \in DOMAIN users : users[u].email = toLowerCase(email)
UsernameTaken(username) == \E u \in DOMAIN users : users[u].username = trim(username)

\* the unique indexes on username and email, and the validators of the paths
UserIndex(doc) ==
    \A u \in DOMAIN users :
        users[u].email # doc.email /\ users[u].username # doc.username
UserValid(doc) ==
    /\ doc.username # <<>> /\ doc.email # <<>>
    /\ doc.user_type \in {"student", "landlord", "admin"}

\* POST /api/signup up to User.findOne({email})
Signup(body) ==
    /\ Cardinality(SignupIds \cap DOMAIN users) + Cardinality(InFlight("signup"))
          < Cardinality(SignupIds)
    /\ IF EmailTaken(body.email)
       THEN /\ Respond("POST /api/signup", NoUser, 409)
            /\ UNCHANGED reqs
       ELSE /\ Suspend([kind |-> "signup", pc |-> "findUsername", body |-> body])
            /\ UNCHANGED resp
    /\ UNCHANGED <<store, relay>>
    /\ UNCHANGED client

\* ... User.findOne({username})
Signup_findUsername(r) ==
    /\ reqs[r].kind = "signup" /\ reqs[r].pc = "findUsername"
    /\ IF UsernameTaken(reqs[r].body.username)
       THEN /\ Respond("POST /api/signup", NoUser, 409)
            /\ Finish(r)
       ELSE /\ reqs' = [reqs EXCEPT ![r].pc = "save"]
            /\ UNCHANGED resp
    /\ UNCHANGED <<store, relay>>
    /\ UNCHANGED client

\* ... bcrypt.hash (throws on a missing password), newUser.save() and the 201
Signup_save(r) ==
    /\ reqs[r].kind = "signup" /\ reqs[r].pc = "save"
    /\ LET body == reqs[r].body
           doc == [username |-> trim(body.username),
                   email |-> toLowerCase(body.email),
                   user_type |-> body.userType, isVerified |-> FALSE,
                   verificationStatus |-> "none", verificationDocument |-> "",
                   password |-> bcryptHash(body.password), bio |-> ""]
       IN IF body.password = "" \/ ~UserValid(doc) \/ ~UserIndex(doc)
          THEN /\ Respond("POST /api/signup", NoUser, 500)
               /\ UNCHANGED users
          ELSE /\ users' = users @@ (NewUserId :> doc)
               /\ Respond("POST /api/signup", NewUserId, 201)
    /\ Finish(r)
    /\ UNCHANGED <<properties, favorites, reviews, conversations, messages, views,
                   notifications, nextPropId, nextConvId, relay>>
    /\ UNCHANGED client

\* ------------------------------------------------------------ specifications
Headers == Tokens \cup {NoToken}

Next ==
    \/ \E t \in Headers, p \in PropIds \cup {NoId} : PostFavorites(t, p)
    \/ \E r \in ReqIds : PostFavorites_findProperty(r)
    \/ \E r \in ReqIds : PostFavorites_notify(r)
    \/ \E t \in Headers, p \in PropIds : DeleteFavorites(t, p)
    \/ \E t \in Headers, b \in PropertyBodies, n \in 0..MaxFiles : PostProperties(t, b, n)
    \/ \E r \in ReqIds, ok \in BOOLEAN : PostProperties_upload(r, ok)
    \/ \E r \in ReqIds : PostProperties_save(r)
    \/ \E t \in Headers, p \in PropIds, b \in PropertyBodies : PutProperties(t, p, b)
    \/ \E r \in ReqIds : PutProperties_update(r)
    \/ \E t \in Headers, p \in PropIds : DeleteProperties(t, p)
    \/ \E r \in ReqIds : DeleteProperties_delete(r)
    \/ \E p \in PropIds : PostView(p)
    \/ \E t \in Headers, p \in PropIds, g \in Ratings, n \in CommentLengths :
          PostReviews(t, p, g, n)
    \/ \E t \in Headers, p \in PropIds \cup {NoId}, l \in UserIds \cup {NoUser} :
          PostConversations(t, p, l)
    \/ \E r \in ReqIds : PostConversations_save(r)
    \/ \E t \in Headers, c \in ConvIds : GetMessages(t, c)
    \/ \E r \in ReqIds : GetMessages_find(r)
    \/ \E t \in Headers, pw \in Passwords : DeleteAccount(t, pw)
    \/ \E r \in ReqIds : DeleteAccount_step(r)
    \/ \E t \in Headers, b \in Bios : UpdateBio(t, b)
    \/ \E k \in Callers, u \in UserIds \cup {NoUser}, d \in DocumentImages :
          UploadVerification(k, u, d)
    \/ \E k \in Callers, u \in UserIds, a \in VerifyActions : VerifyAction(k, u, a)
    \/ \E c \in ConnIds : WsConnect(c)
    \/ \E c \in ConnIds, t \in Tokens : WsAuth(c, t)
    \/ \E c \in ConnIds : WsClose(c)
    \/ \E c \in ConnIds, v \in ConvIds, m \in Contents : WsMessage(c, v, m)
    \/ \E r \in ReqIds : WsMessage_save(r)
    \/ \E r \in ReqIds : WsMessage_push(r)
    \/ BotReply
    \/ \E r \in ReqIds : BotReply_push(r)
    \/ \E b \in SignupBodies : Signup(b)
    \/ \E r \in ReqIds : Signup_findUsername(r)
    \/ \E r \in ReqIds : Signup_save(r)
    \/ \E t \in Headers : MarkRead(t)
    \/ \E t \in Headers, c \in ConvIds, q \in Questions, k \in BOOLEAN : AskAi(t, c, q, k)
    \/ \E r \in ReqIds, o \in FetchOutcomes : AskAi_fetch(r, o)
    \/ \E r \in ReqIds : AskAi_push(r)
    \/ Mount
    \/ InitializeAuth
    \/ \E l \in BOOLEAN, u \in Visitors, k \in BOOLEAN : HandleSubmit(l, u, k)
    \/ \E o \in ApiOutcomes : HandleSubmit_response(o)
    \/ Logout

Spec == Init /\ [][Next]_vars

\* The favorites routes: student s1 and landlord l1, who owns listing 1, add
\* and remove favorites of listing 1 and of ids that name no listing.
FavoriteHeaders == {Tok("s1"), Tok("l1"), NoToken, Forged("s1")}
NextFavorites ==
    \/ \E t \in FavoriteHeaders, p \in PropIds \cup {NoId} : PostFavorites(t, p)
    \/ \E r \in ReqIds : PostFavorites_findProperty(r)
    \/ \E r \in ReqIds : PostFavorites_notify(r)
    \/ \E t \in FavoriteHeaders, p \in PropIds : DeleteFavorites(t, p)

SpecFavorites == Init /\ [][NextFavorites]_vars

\* The review route, the only writer of the Review collection: students s1 and
\* s2 and landlord l1 post reviews of listing 1 and of ids that name no listing.
ReviewHeaders == {Tok("s1"), Tok("s2"), Tok("l1"), NoToken, Forged("s1")}
NextReviews ==
    \E t \in ReviewHeaders, p \in PropIds, g \in Ratings, n \in CommentLengths :
        PostReviews(t, p, g, n)

SpecReviews == Init /\ [][NextReviews]_vars

\* Editing and deleting listings: l1 owns listing 1 and may hand it to l2
\* through the body of a PUT; both landlords send PUT and DELETE requests.
PropertyHeaders == {Tok("l1"), Tok("l2"), NoToken}
SomeBodies == {[title |-> "t2", landlord_id |-> NoUser, valid |-> TRUE],
               [title |-> "t1", landlord_id |-> "l2", valid |-> TRUE]}
NextProperties ==
    \/ \E t \in PropertyHeaders, p \in PropIds, b \in SomeBodies : PutProperties(t, p, b)
    \/ \E r \in ReqIds : PutProperties_update(r)
    \/ \E t \in PropertyHeaders, p \in PropIds : DeleteProperties(t, p)
    \/ \E r \in ReqIds : DeleteProperties_delete(r)

SpecProperties == Init /\ [][NextProperties]_vars

\* Reading a conversation: student s1 opens a conversation with l1 about
\* listing 1 and chats over a socket; s1, l1 and the outsider s2 fetch messages.
MessageHeaders == {Tok("s1"), Tok("l1"), Tok("s2")}
NextMessages ==
    \/ PostConversations(Tok("s1"), 1, "l1")
    \/ \E r \in ReqIds : PostConversations_save(r)
    \/ WsConnect(1)
    \/ WsAuth(1, Tok("s1"))
    \/ \E id \in ConvIds : WsMessage(1, id, <<"H", "e", "L", "P">>)
    \/ \E r \in ReqIds : WsMessage_save(r)
    \/ \E r \in ReqIds : WsMessage_push(r)
    \/ BotReply
    \/ \E r \in ReqIds : BotReply_push(r)
    \/ \E t \in MessageHeaders, id \in ConvIds : GetMessages(t, id)
    \/ \E r \in ReqIds : GetMessages_find(r)

SpecMessages == Init /\ [][NextMessages]_vars

\* Deleting a landlord account: l1 deletes the account that owns listing 1
\* while student s1 saves, views and asks about that listing.
NextAccounts ==
    \/ \E pw \in {"pw", "wrong"} : DeleteAccount(Tok("l1"), pw)
    \/ \E r \in ReqIds : DeleteAccount_step(r)
    \/ PostFavorites(Tok("s1"), 1)
    \/ \E r \in ReqIds : PostFavorites_findProperty(r)
    \/ \E r \in ReqIds : PostFavorites_notify(r)
    \/ PostConversations(Tok("s1"), 1, "l1")
    \/ \E r \in ReqIds : PostConversations_save(r)
    \/ PostView(1)

SpecAccounts == Init /\ [][NextAccounts]_vars

\* The connection registry: sockets open, authenticate with the token of s1
\* or l1 or with a forged one, and close.
RelayTokens == {Tok("s1"), Tok("l1"), Forged("s1")}
NextRelay ==
    \/ \E c \in ConnIds : WsConnect(c)
    \/ \E c \in ConnIds, t \in RelayTokens : WsAuth(c, t)
    \/ \E c \in ConnIds : WsClose(c)

SpecRelay == Init /\ [][NextRelay]_vars

\* Opening conversations: student s1 and landlord l1 (owner of listing 1)
\* post to /api/conversations, with or without the ids the body should carry.
ConversationHeaders == {Tok("s1"), Tok("l1"), NoToken}
NextConversations ==
    \/ \E t \in ConversationHeaders, p \in {1, NoId}, l \in {"l1", "l2", NoUser} :
          PostConversations(t, p, l)
    \/ \E r \in ReqIds : PostConversations_save(r)

SpecConversations == Init /\ [][NextConversations]_vars

\* Verification: anybody posts a document for s1 or l1 or posts a verify-action
VerifiedUsers == {"s1", "l1", NoUser}
NextVerification ==
    \/ \E k \in Callers, u \in VerifiedUsers, d \in DocumentImages :
          UploadVerification(k, u, d)
    \/ \E k \in Callers, u \in VerifiedUsers, a \in VerifyActions :
          VerifyAction(k, u, a)

SpecVerification == Init /\ [][NextVerification]_vars

\* Creating listings: l1 and l2 post listings while an admin approves or
\* rejects l1's verification.
NextListing ==
    \/ \E t \in PropertyHeaders, b \in SomeBodies, n \in 0..MaxFiles :
          PostProperties(t, b, n)
    \/ \E r \in ReqIds, ok \in BOOLEAN : PostProperties_upload(r, ok)
    \/ \E r \in ReqIds : PostProperties_save(r)
    \/ \E a \in {"approve", "reject"} : VerifyAction("a1", "l1", a)

SpecListing == Init /\ [][NextListing]_vars

\* Signing up: new accounts are requested with fresh and with taken emails
\* and usernames, two requests at a time.
NextSignup ==
    \/ \E b \in SignupBodies : Signup(b)
    \/ \E r \in ReqIds : Signup_findUsername(r)
    \/ \E r \in ReqIds : Signup_save(r)

SpecSignup == Init /\ [][NextSignup]_vars

\* Chatting: s1 opens a conversation with l1 about listing 1; sockets
\* authenticate as s1, l1 or the outsider s2, send chat frames and close.
ChatTokens == {Tok("s1"), Tok("l1"), Tok("s2")}
NextChat ==
    \/ PostConversations(Tok("s1"), 1, "l1")
    \/ \E r \in ReqIds : PostConversations_save(r)
    \/ \E c \in ConnIds : WsConnect(c)
    \/ \E c \in ConnIds, t \in ChatTokens : WsAuth(c, t)
    \/ \E c \in ConnIds : WsClose(c)
    \/ \E c \in ConnIds, id \in ConvIds : WsMessage(c, id, <<"h", "i">>)
    \/ \E r \in ReqIds : WsMessage_save(r)
    \/ \E r \in ReqIds : WsMessage_push(r)

SpecChat == Init /\ [][NextChat]_vars

\* The gate of the chat branch: s1 opens a conversation with l1; sockets send
\* auth frames with a valid or a forged token of s1 and chat frames.
GateTokens == {Tok("s1"), Forged("s1")}
NextGate ==
    \/ PostConversations(Tok("s1"), 1, "l1")
    \/ \E r \in ReqIds : PostConversations_save(r)
    \/ \E c \in ConnIds : WsConnect(c)
    \/ \E c \in ConnIds, t \in GateTokens : WsAuth(c, t)
    \/ \E c \in ConnIds, id \in ConvIds : WsMessage(c, id, <<"h", "i">>)
    \/ \E r \in ReqIds : WsMessage_save(r)
    \/ \E r \in ReqIds : WsMessage_push(r)

SpecGate == Init /\ [][NextGate]_vars

\* Notifications: l2 lists a second property, s1 saves listings as favorites,
\* which notifies their landlords, and the landlords mark notifications read.
NextNotifications ==
    \/ PostProperties(Tok("l2"), [title |-> "t2", landlord_id |-> NoUser, valid |-> TRUE], 0)
    \/ \E r \in ReqIds : PostProperties_save(r)
    \/ \E p \in PropIds : PostFavorites(Tok("s1"), p)
    \/ \E r \in ReqIds : PostFavorites_findProperty(r)
    \/ \E r \in ReqIds : PostFavorites_notify(r)
    \/ \E t \in PropertyHeaders : MarkRead(t)

SpecNotifications == Init /\ [][NextNotifications]_vars

\* Deleting accounts during a chat: s1 opens a conversation with l1 and sends
\* messages over a socket while s1 or l1 deletes the account.
NextOrphans ==
    \/ PostConversations(Tok("s1"), 1, "l1")
    \/ \E r \in ReqIds : PostConversations_save(r)
    \/ WsConnect(1)
    \/ WsAuth(1, Tok("s1"))
    \/ \E id \in ConvIds : WsMessage(1, id, <<"h", "i">>)
    \/ \E r \in ReqIds : WsMessage_save(r)
    \/ \E r \in ReqIds : WsMessage_push(r)
    \/ \E t \in {Tok("s1"), Tok("l1")} : DeleteAccount(t, Password)
    \/ \E r \in ReqIds : DeleteAccount_step(r)

SpecOrphans == Init /\ [][NextOrphans]_vars

\* Delivery: s1 opens a conversation with l1 and chats on socket 1; l1's
\* socket 2 registers, closes or stays away at any time.
NextDelivery ==
    \/ PostConversations(Tok("s1"), 1, "l1")
    \/ \E r \in ReqIds : PostConversations_save(r)
    \/ \E c \in ConnIds : WsConnect(c)
    \/ WsAuth(1, Tok("s1"))
    \/ \E c \in ConnIds \ {1} : WsAuth(c, Tok("l1"))
    \/ \E c \in ConnIds \ {1} : WsClose(c)
    \/ \E id \in ConvIds : WsMessage(1, id, <<"h", "i">>)
    \/ \E r \in ReqIds : WsMessage_save(r)
    \/ \E r \in ReqIds : WsMessage_push(r)

SpecDelivery == Init /\ [][NextDelivery]_vars

\* The canned reply: s1 opens a conversation with l1; socket 1 authenticates
\* as s1 or as l1, also anew while a frame is being handled, and sends chat
\* frames with and without the keyword. Every pending handler and timer runs.
NextBot ==
    \/ PostConversations(Tok("s1"), 1, "l1")
    \/ \E r \in ReqIds : PostConversations_save(r)
    \/ WsConnect(1)
    \/ \E t \in {Tok("s1"), Tok("l1")} : WsAuth(1, t)
    \/ \E id \in ConvIds, m \in {<<"h", "i">>, <<"H", "e", "L", "P">>} : WsMessage(1, id, m)
    \/ \E r \in ReqIds : WsMessage_save(r)
    \/ \E r \in ReqIds : WsMessage_push(r)
    \/ BotReply
    \/ \E r \in ReqIds : BotReply_push(r)

SpecBot ==
    /\ Init /\ [][NextBot]_vars
    /\ WF_vars(\E r \in ReqIds : PostConversations_save(r))
    /\ WF_vars(\E r \in ReqIds : WsMessage_save(r))
    /\ WF_vars(\E r \in ReqIds : WsMessage_push(r))
    /\ WF_vars(\E r \in ReqIds : BotReply_push(r))
    /\ SF_vars(BotReply)

\* Asking the assistant: s1 opens a conversation with l1 about listing 1, the
\* two register sockets, and s1 asks questions the service answers or not.
NextAskAi ==
    \/ PostConversations(Tok("s1"), 1, "l1")
    \/ \E r \in ReqIds : PostConversations_save(r)
    \/ \E c \in {1, 2} : WsConnect(c)
    \/ WsAuth(1, Tok("s1"))
    \/ WsAuth(2, Tok("l1"))
    \/ \E t \in {Tok("s1"), NoToken}, id \in ConvIds, q \in Questions, k \in BOOLEAN :
          AskAi(t, id, q, k)
    \/ \E r \in ReqIds, o \in FetchOutcomes : AskAi_fetch(r, o)
    \/ \E r \in ReqIds : AskAi_push(r)

SpecAskAi == Init /\ [][NextAskAi]_vars

\* Uploading images: landlords post complete listings with up to MaxFiles
\* images, each upload resolving or failing.
NextUpload ==
    \/ \E t \in PropertyHeaders, b \in {x \in PropertyBodies : x.valid},
          n \in 0..MaxFiles : PostProperties(t, b, n)
    \/ \E r \in ReqIds, ok \in BOOLEAN : PostProperties_upload(r, ok)
    \/ \E r \in ReqIds : PostProperties_save(r)

SpecUpload == Init /\ [][NextUpload]_vars

\* Outsiders: s1 opens a conversation with l1 about listing 1; s1 and s2, who
\* has no part in it, register sockets, send chat frames and ask the assistant.
NextOutsiders ==
    \/ PostConversations(Tok("s1"), 1, "l1")
    \/ \E r \in ReqIds : PostConversations_save(r)
    \/ \E c \in {1, 2} : WsConnect(c)
    \/ WsAuth(1, Tok("s1"))
    \/ WsAuth(2, Tok("s2"))
    \/ \E c \in {1, 2}, id \in ConvIds : WsMessage(c, id, <<"h", "i">>)
    \/ \E r \in ReqIds : WsMessage_save(r)
    \/ \E r \in ReqIds : WsMessage_push(r)
    \/ \E t \in {Tok("s1"), Tok("s2")}, id \in ConvIds : AskAi(t, id, "q", TRUE)
    \/ \E r \in ReqIds, o \in FetchOutcomes : AskAi_fetch(r, o)
    \/ \E r \in ReqIds : AskAi_push(r)

SpecOutsiders == Init /\ [][NextOutsiders]_vars

\* Refused deletions: l1 asks for the deletion of its account with the right,
\* a wrong or no password while s1 saves and views listing 1.
NextRefusal ==
    \/ \E pw \in Passwords : DeleteAccount(Tok("l1"), pw)
    \/ \E r \in ReqIds : DeleteAccount_step(r)
    \/ PostFavorites(Tok("s1"), 1)
    \/ \E r \in ReqIds : PostFavorites_findProperty(r)
    \/ \E r \in ReqIds : PostFavorites_notify(r)
    \/ PostView(1)

SpecRefusal == Init /\ [][NextRefusal]_vars

\* The browser session: the page loads and reloads; the visitor logs in or
\* signs up through AuthForm, and logs out.
NextClient ==
    \/ Mount
    \/ InitializeAuth
    \/ \E l \in BOOLEAN, u \in Visitors, k \in BOOLEAN : HandleSubmit(l, u, k)
    \/ \E o \in ApiOutcomes : HandleSubmit_response(o)
    \/ Logout

SpecClient == Init /\ [][NextClient]_vars

\* ------------------------------------------------------------------ claims

\* C1: a POST /api/favorites by a user who already holds a Favorite for that
\* property is answered 409 and creates no second record.
C1_DuplicateFavoriteConflict ==
    [][\A t \in IssuedTokens, p \in PropIds :
          (HasFavorite(t.userId, p) /\ PostFavorites(t, p))
              => (resp'.status = 409 /\ favorites' = favorites)]_vars

\* C2: in every reachable state the store holds at most one Favorite per
\* (user, property) pair, also while requests for one pair are in flight together.
C2_FavoriteUnique ==
    \A u \in UserIds, p \in PropIds \cup {NoId} :
        CountDocuments(favorites, {f \in DOMAIN favorites :
                                      f.user_id = u /\ f.property_id = p}) <= 1

\* two POST /api/favorites of s1 for listing 1 are suspended at once (the
\* favorite of the first was removed before the second arrived)
C2_Witness ==
    /\ \A r \in ReqIds : /\ reqs[r].kind = "postFavorite"
                         /\ reqs[r].userId = "s1"
                         /\ reqs[r].property_id = 1
    /\ HasFavorite("s1", 1)

\* C3 as stated: every POST of a review by a student who already reviewed the
\* property is answered 409, and the store holds at most one Review per pair.
C3_DuplicateReviewAlways409 ==
    /\ [](\A p \in PropIds, u \in UserIds :
            CountDocuments(reviews, {d \in DOMAIN reviews :
                                    d.property_id = p /\ d.user_id = u}) <= 1)
    /\ [][\A u \in Students, p \in PropIds, g \in Ratings, n \in CommentLengths :
            (HasReview(p, u) /\ PostReviews(Tok(u), p, g, n)) => resp'.status = 409]_vars

\* C3, amended: such a POST never stores a review and is never answered 201;
\* it is answered 409 when its rating and comment are present and pass the
\* schema's validators (400 when one is missing, 500 when one is invalid); the
\* store holds at most one Review per (property, user) pair.
C3_DuplicateReviewRejected ==
    /\ [](\A p \in PropIds, u \in UserIds :
            CountDocuments(reviews, {d \in DOMAIN reviews :
                                    d.property_id = p /\ d.user_id = u}) <= 1)
    /\ [][\A u \in Students, p \in PropIds, g \in Ratings, n \in CommentLengths :
            (HasReview(p, u) /\ PostReviews(Tok(u), p, g, n)) =>
                /\ reviews' = reviews
                /\ resp'.status =
                      IF g = 0 \/ n = 0 THEN 400
                      ELSE IF ReviewValid(g, n) THEN 409 ELSE 500]_vars

\* s1 has reviewed listing 1 and a further review of it was just answered 409
C3_Witness ==
    /\ HasReview(1, "s1")
    /\ resp = [op |-> "POST /api/properties/:id/reviews", user |-> "s1",
               status |-> 409, body |-> <<>>]

\* a step that edits or removes listing id
Touched(id) == id \notin DOMAIN properties' \/ properties'[id] # properties[id]

\* C4: a PUT or DELETE of a listing by a user other than its stored landlord_id
\* is answered 403, writes nothing and starts no write; and a listing is
\* edited or deleted only by a request of the landlord who owned it when the
\* request was authorized.
C4_OnlyOwnerWrites ==
    [][/\ \A u \in {"l1", "l2"}, id \in DOMAIN properties, b \in SomeBodies :
            (properties[id].landlord_id # u
                /\ (PutProperties(Tok(u), id, b) \/ DeleteProperties(Tok(u), id)))
            => (resp'.status = 403 /\ properties' = properties /\ reqs' = reqs)
       /\ \A id \in DOMAIN properties :
            Touched(id) =>
               \E r \in ReqIds :
                  /\ reqs[r].kind \in {"putProperty", "deleteProperty"}
                  /\ reqs[r].id = id
                  /\ reqs[r].userId = reqs[r].owner
                  /\ reqs'[r] = Idle]_vars

\* l2 was just refused the edit or deletion of listing 1, which l1 still owns
\* under its first title
C4_Witness ==
    /\ resp.user = "l2" /\ resp.status = 403
    /\ resp.op \in {"PUT /api/properties/:id", "DELETE /api/properties/:id"}
    /\ 1 \in DOMAIN properties
    /\ properties[1] = [landlord_id |-> "l1", title |-> "t1", images |-> 0]

\* C5: the messages route answers a conversation's student and its landlord
\* with every message stored for that conversation, in order, and answers any
\* other authenticated user 403 with an empty body and reads no message.
C5_MessagesForParticipantsOnly ==
    [][/\ \A u \in {"s1", "l1", "s2"}, id \in DOMAIN conversations :
            GetMessages(Tok(u), id) =>
               IF u \in {conversations[id].student_id, conversations[id].landlord_id}
               THEN \E r \in ReqIds :
                       /\ reqs[r] = Idle
                       /\ reqs'[r].kind = "getMessages"
                       /\ reqs'[r].userId = u /\ reqs'[r].id = id
               ELSE /\ resp'.status = 403 /\ resp'.body = <<>>
                    /\ reqs' = reqs
       /\ \A r \in ReqIds :
            GetMessages_find(r) =>
               /\ resp'.status = 200 /\ resp'.user = reqs[r].userId
               /\ \A i \in 1..Len(messages) :
                     messages[i].conversation_id = reqs[r].id
                        <=> \E j \in 1..Len(resp'.body) : resp'.body[j] = i
               /\ \A j, k \in 1..Len(resp'.body) :
                     j < k => resp'.body[j] < resp'.body[k]]_vars

\* the landlord of conversation 1 was just sent both of its stored messages
C5_Witness ==
    /\ resp.op = "GET /api/conversations/:id/messages"
    /\ resp.user = "l1" /\ resp.status = 200
    /\ Len(messages) = 2 /\ resp.body = <<1, 2>>
    /\ 1 \in DOMAIN conversations /\ conversations[1].landlord_id = "l1"

\* C6: the step that completes a landlord's delete-account with 200 leaves no
\* Property of that landlord and no Favorite, Conversation or PropertyView
\* that references one of the listings the landlord had.
C6_CascadeLeavesNothing ==
    [][\A r \in ReqIds :
          (/\ reqs[r].kind = "deleteAccount" /\ reqs[r].pc = "deleteUser"
           /\ UserTypeOf(reqs[r].userId) = "landlord"
           /\ DeleteAccount_step(r))
          => /\ \A p \in DOMAIN properties' :
                   properties'[p].landlord_id # reqs[r].userId
             /\ \A f \in DOMAIN favorites' : f.property_id \notin reqs[r].propertyIds
             /\ \A c \in DOMAIN conversations' :
                   conversations'[c].property_id \notin reqs[r].propertyIds
             /\ \A v \in DOMAIN views' : v.property_id \notin reqs[r].propertyIds]_vars

\* C7: a socket that authenticates with a valid token of user u becomes the
\* one connection the registry returns for u, whichever connection was
\* registered for u before, and the entries of other users stay as they were;
\* the registry always maps a user id to a single connection.
C7_LatestConnectionWins ==
    /\ [](\A u \in DOMAIN clients : clients[u] \in ConnIds)
    /\ [][\A c \in ConnIds, u \in {"s1", "l1"} :
          WsAuth(c, Tok(u)) =>
             /\ DOMAIN clients' = DOMAIN clients \cup {u}
             /\ clients'[u] = c
             /\ \A v \in DOMAIN clients \ {u} : clients'[v] = clients[v]]_vars

\* connections 1 and then 2 authenticated as s1: the registry returns 2
C7_Witness ==
    /\ conns[1].state = "open" /\ conns[1].userId = "s1"
    /\ conns[2].state = "open" /\ conns[2].userId = "s1"
    /\ DOMAIN clients = {"s1"} /\ clients["s1"] = 2

\* C8: the store never holds two Conversations of one student about one property
C8_OneConversationPerPair ==
    \A u \in UserIds, p \in PropIds : Cardinality(ConvsOf(p, u)) <= 1

\* C9: no Conversation has a student_id equal to its landlord_id or to the
\* owner of its property
C9_NoSelfConversation ==
    \A c \in DOMAIN conversations :
        /\ conversations[c].student_id # conversations[c].landlord_id
        /\ conversations[c].property_id \in DOMAIN properties =>
              conversations[c].student_id #
                 properties[conversations[c].property_id].landlord_id

\* C10: verificationStatus and isVerified of a user change only in a
\* verify-action request made by an admin
C10_OnlyAdminVerifies ==
    [][\A u \in DOMAIN users :
          (u \in DOMAIN users'
             /\ (users'[u].verificationStatus # users[u].verificationStatus
                   \/ users'[u].isVerified # users[u].isVerified))
          => \E k \in Admins, a \in VerifyActions : VerifyAction(k, u, a)]_vars

\* C11: POST /api/properties with the token of a landlord whose isVerified is
\* false is answered 403 and goes no further, so it creates no Property.
C11_UnverifiedLandlordRefused ==
    [][\A u \in {"l1", "l2"}, b \in SomeBodies, n \in 0..MaxFiles :
          (/\ u \in DOMAIN users /\ users[u].user_type = "landlord"
           /\ ~users[u].isVerified
           /\ PostProperties(Tok(u), b, n))
          => (resp'.status = 403 /\ reqs' = reqs /\ properties' = properties)]_vars

\* C12: no two users share an email or a username, and a signup that is
\* answered while a user holds its email or its username is answered 409 and
\* creates no user.
C12_DuplicateSignupConflict ==
    /\ [](\A u, v \in DOMAIN users :
             u # v => /\ users[u].email # users[v].email
                      /\ users[u].username # users[v].username)
    /\ [][\A r \in ReqIds :
            (/\ reqs[r].kind = "signup"
             /\ EmailTaken(reqs[r].body.email) \/ UsernameTaken(reqs[r].body.username)
             /\ Signup_findUsername(r) \/ Signup_save(r))
            => (resp'.status = 409 /\ users' = users)]_vars

\* the newMessage frames of message id to the open registered connections of ids
FramesTo(ids, id) ==
    {[to |-> c, type |-> "newMessage", id |-> id] :
        c \in {d \in ConnIds : \E u \in ids : u \in DOMAIN clients
                                  /\ clients[u] = d /\ conns[d].state = "open"}}

\* C13: when the relay pushes a chat message, the message is already stored
\* in its conversation, and the frames go to the registered open connection of
\* its sender and to that of every participant of the conversation that is
\* not the sender, and to no other connection.
C13_PushToSenderAndCounterparty ==
    [][\A r \in ReqIds :
          WsMessage_push(r) =>
             /\ reqs[r].id \in 1..Len(messages)
             /\ messages[reqs[r].id].conversation_id = reqs[r].conversation_id
             /\ sent' = sent \cup
                   FramesTo({messages[reqs[r].id].sender_id}
                               \cup {reqs[r].student_id, reqs[r].landlord_id},
                            reqs[r].id)]_vars

\* C14: a chat frame on a connection that has not authenticated changes
\* nothing (no Message, no frame sent, registry untouched, no handler left
\* running), and a connection gets a user id only in an auth frame that
\* carries a validly signed token.
C14_UnauthenticatedFrameIgnored ==
    [][/\ \A c \in ConnIds, id \in ConvIds :
            (conns[c].userId = NoUser /\ WsMessage(c, id, <<"h", "i">>))
            => (/\ messages' = messages /\ sent' = sent /\ clients' = clients
                /\ timers' = timers /\ reqs' = reqs /\ conns' = conns)
       /\ \A c \in ConnIds :
            (conns[c].userId = NoUser /\ conns'[c].userId # NoUser)
            => \E t \in IssuedTokens : t.sig = "good" /\ WsAuth(c, t)
       /\ \A i \in 1..Len(messages') : messages'[i].sender_id # NoUser]_vars

\* conversation 1 exists and no message is stored; connection 1 is open and
\* has not authenticated (its auth frame carried a forged token or none),
\* while connection 2 is authenticated as s1
C14_Witness ==
    /\ 1 \in DOMAIN conversations /\ messages = <<>>
    /\ conns[1].state = "open" /\ conns[1].userId = NoUser
    /\ conns[2].state = "open" /\ conns[2].userId = "s1"
    /\ reqs = [r \in ReqIds |-> Idle]

\* C15: no step removes a notification, changes a field other than isRead or
\* sets isRead back to false; mark-read by user u sets isRead on every
\* notification whose recipient is u and leaves all others as they were.
C15_ReadFlagMonotone ==
    [][/\ Len(notifications') >= Len(notifications)
       /\ \A i \in 1..Len(notifications) :
             /\ [notifications'[i] EXCEPT !.isRead = FALSE]
                   = [notifications[i] EXCEPT !.isRead = FALSE]
             /\ notifications[i].isRead => notifications'[i].isRead
       /\ \A u \in {"l1", "l2"} :
             MarkRead(Tok(u)) =>
                /\ Len(notifications') = Len(notifications)
                /\ \A i \in 1..Len(notifications) :
                      IF notifications[i].recipient_id = u
                      THEN notifications'[i].isRead
                      ELSE notifications'[i] = notifications[i]]_vars

\* l1 has just marked its notification read while that of l2 is still unread
C15_Witness ==
    /\ resp.op = "PUT /api/notifications/mark-read"
    /\ resp.user = "l1" /\ resp.status = 200
    /\ \E i, j \in 1..Len(notifications) :
          /\ notifications[i].recipient_id = "l1" /\ notifications[i].isRead
          /\ notifications[j].recipient_id = "l2" /\ ~notifications[j].isRead

\* C16: every stored Message refers to a Conversation that is in the store
C16_MessagesHaveConversation ==
    \A i \in 1..Len(messages) : messages[i].conversation_id \in DOMAIN conversations

\* C17: a stored Message is never changed or removed by any step, and the
\* messages route lists the messages of a conversation in the order in which
\* they were created.
C17_MessagesImmutableAndOrdered ==
    [][/\ \A i \in 1..Len(messages) :
             i <= Len(messages') /\ messages'[i] = messages[i]
       /\ \A r \in ReqIds :
             GetMessages_find(r) =>
                /\ \A j \in 1..Len(resp'.body) :
                      /\ resp'.body[j] \in 1..Len(messages)
                      /\ messages[resp'.body[j]].conversation_id = reqs[r].id
                /\ \A j \in 1..(Len(resp'.body) - 1) :
                      resp'.body[j] < resp'.body[j + 1]]_vars

\* the student of conversation 1 was sent its message and then the canned
\* reply, both stored as they were created
C17_Witness ==
    /\ resp.op = "GET /api/conversations/:id/messages"
    /\ resp.user = "s1" /\ resp.status = 200 /\ resp.body = <<1, 2>>
    /\ Len(messages) = 2
    /\ messages[1].sender_id = "s1" /\ messages[1].content = <<"H", "e", "L", "P">>
    /\ messages[2].sender_id = "l1" /\ messages[2].content = AutoReply

\* C18: a chat frame from an authenticated connection that names no stored
\* conversation stores no Message, sends no frame, schedules no reply, starts
\* no handler and leaves the connection open, authenticated and registered.
C18_AbsentConversationIgnored ==
    [][\A c \in ConnIds, id \in ConvIds \ DOMAIN conversations :
          (conns[c].userId # NoUser /\ WsMessage(c, id, <<"H", "e", "L", "P">>))
          => /\ messages' = messages /\ sent' = sent /\ timers' = timers
             /\ reqs' = reqs /\ conns' = conns /\ clients' = clients
             /\ conns'[c].state = "open"]_vars

\* s1's socket is open, authenticated and registered, conversation 1 exists
\* and conversation 2 does not: a frame that names 2 has left no trace
C18_Witness ==
    /\ conns[1].state = "open" /\ conns[1].userId = "s1"
    /\ "s1" \in DOMAIN clients /\ clients["s1"] = 1
    /\ DOMAIN conversations = {1}
    /\ messages = <<>> /\ sent = {} /\ timers = <<>>
    /\ reqs = [r \in ReqIds |-> Idle]

\* the newMessage frames a step writes
NewFrames == {f \in sent' \ sent : f.type = "newMessage"}

\* C19: a stored chat message is pushed once, by the handler that stored it,
\* to the connections that are open and registered for its sender or its
\* counterparty at that moment; every message is stored before its push, and
\* once that handler is done no step writes a frame for the message, so a
\* connection the counterparty registers later never receives it.
C19_NoLateDelivery ==
    [][/\ \A f \in NewFrames :
             \E r \in ReqIds :
                /\ WsMessage_push(r) /\ reqs[r].id = f.id
                /\ f.id \in 1..Len(messages)
                /\ \E u \in {reqs[r].student_id, reqs[r].landlord_id,
                             conns[reqs[r].conn].userId} :
                      /\ u \in DOMAIN clients /\ clients[u] = f.to
                      /\ conns[f.to].state = "open"
       /\ \A id \in 1..Len(messages) :
             (\A r \in ReqIds : reqs[r].kind = "wsMessage" => reqs[r].id # id)
             => \A f \in NewFrames : f.id # id]_vars

\* message 1 of s1 was stored and pushed while l1 was away; l1's socket 2 has
\* registered since and no frame was written to it
C19_Witness ==
    /\ Len(messages) = 1 /\ messages[1].sender_id = "s1"
    /\ reqs = [r \in ReqIds |-> Idle]
    /\ "l1" \in DOMAIN clients /\ clients["l1"] = 2 /\ conns[2].state = "open"
    /\ sent = {[to |-> 1, type |-> "newMessage", id |-> 1]}

\* C20: when the relay has stored and pushed a chat message, it schedules one
\* canned reply if the message's sender is a student and its content holds
\* "help" in any letter case, and none otherwise; every scheduled reply is
\* eventually stored, after that message, in the message's conversation with
\* the conversation's landlord as sender.
C20_AutoReplyForStudentHelp ==
    /\ [][\A r \in ReqIds :
            WsMessage_push(r) =>
               LET m == messages[reqs[r].id]
               IN IF UserTypeOf(m.sender_id) = "student"
                     /\ includes(toLowerCase(m.content), <<"h", "e", "l", "p">>)
                  THEN /\ Len(timers') = Len(timers) + 1
                       /\ timers'[Len(timers')].conversation_id = m.conversation_id
                       /\ timers'[Len(timers')].landlord_id = reqs[r].landlord_id
                  ELSE timers' = timers]_vars
    /\ [][BotReply =>
            messages' = Append(messages,
                               [conversation_id |-> Head(timers).conversation_id,
                                sender_id |-> Head(timers).landlord_id,
                                content |-> AutoReply])]_vars
    /\ [][Len(messages') > Len(messages) /\ messages'[Len(messages')].content = AutoReply
            => BotReply]_vars
    /\ (timers # <<>>) ~> (timers = <<>>)

\* C21: when the generation call returns answer text, ask-ai stores one
\* Message of the conversation with its landlord as sender and then pushes it
\* to the open registered connections of the conversation's student and
\* landlord and answers 200; when the call fails or returns no text it
\* answers 500 and stores and pushes nothing; no other step of the route
\* stores or pushes a Message.
C21_AnswerStoredIffText ==
    [][/\ \A r \in ReqIds, o \in FetchOutcomes :
            AskAi_fetch(r, o) =>
               IF o = "text"
               THEN /\ messages' = Append(messages,
                          [conversation_id |-> reqs[r].conversation_id,
                           sender_id |-> reqs[r].landlord_id, content |-> Answer])
                    /\ reqs'[r].kind = "askAi" /\ reqs'[r].pc = "push"
                    /\ reqs'[r].id = Len(messages')
               ELSE /\ resp'.status = 500 /\ reqs'[r] = Idle
                    /\ messages' = messages /\ sent' = sent
       /\ \A r \in ReqIds :
            AskAi_push(r) =>
               /\ resp'.status = 200 /\ messages' = messages
               /\ sent' = sent \cup FramesTo({reqs[r].student_id, reqs[r].landlord_id},
                                             reqs[r].id)
       /\ (messages' # messages \/ sent' # sent) =>
             \E r \in ReqIds : reqs[r].kind = "askAi" /\ reqs'[r] # reqs[r]]_vars

\* the answer to s1's question was stored as message 1 with l1 as sender and
\* pushed to the sockets of s1 and of l1
C21_Witness ==
    /\ resp.op = "POST /api/conversations/:id/ask-ai" /\ resp.status = 200
    /\ Len(messages) = 1 /\ messages[1].sender_id = "l1"
    /\ messages[1].content = Answer
    /\ sent = {[to |-> 1, type |-> "newMessage", id |-> 1],
               [to |-> 2, type |-> "newMessage", id |-> 1]}

\* C22: when an image upload of POST /api/properties fails, the request ends
\* with a 500 response and creates no Property, however many of its images
\* were uploaded before; a Property is created only by a request all of whose
\* images were uploaded.
C22_FailedUploadCreatesNothing ==
    [][/\ \A r \in ReqIds :
            PostProperties_upload(r, FALSE) =>
               /\ resp'.op = "POST /api/properties" /\ resp'.status = 500
               /\ reqs'[r] = Idle
               /\ properties' = properties /\ nextPropId' = nextPropId
       /\ properties' # properties =>
             \E r \in ReqIds :
                /\ reqs[r].kind = "postProperty" /\ reqs[r].pc = "save"
                /\ reqs[r].uploaded = reqs[r].files
                /\ reqs'[r] = Idle]_vars

\* a two-image request was answered 500 while listing 1 is still the only
\* Property and no request is left in flight
C22_Witness ==
    /\ resp.op = "POST /api/properties" /\ resp.status = 500
    /\ DOMAIN properties = {1} /\ nextPropId = 2
    /\ \A r \in ReqIds : reqs[r] = Idle

\* C23: a Property's landlord_id is the id of the authenticated user who
\* created it: a new Property carries the id of the user whose request saved
\* it, whatever landlord_id the body named, and no step changes the
\* landlord_id of a Property that stays in the store.
C23_LandlordIdIsCreator ==
    [][/\ \A id \in DOMAIN properties' \ DOMAIN properties :
            \E r \in ReqIds :
               /\ reqs[r].kind = "postProperty" /\ reqs'[r] = Idle
               /\ properties'[id].landlord_id = reqs[r].userId
       /\ \A id \in DOMAIN properties \cap DOMAIN properties' :
            properties'[id].landlord_id = properties[id].landlord_id]_vars

\* C24: every Conversation whose Property is in the store has that Property's
\* landlord_id as its own landlord_id
C24_LandlordOwnsProperty ==
    \A c \in DOMAIN conversations :
        conversations[c].property_id \in DOMAIN properties =>
           conversations[c].landlord_id =
              properties[conversations[c].property_id].landlord_id

\* C25: every registry entry of a user u names a connection whose
\* authenticated user is u
C25_EntryPointsToOwnConnection ==
    \A u \in DOMAIN clients : conns[clients[u]].userId = u

\* C26: a user's registry entry disappears only in the step in which the
\* connection it names closes
C26_RemovedOnlyWithMappedConnection ==
    [][\A u \in DOMAIN clients \ DOMAIN clients' :
          /\ conns[clients[u]].state # "closed"
          /\ conns'[clients[u]].state = "closed"]_vars

\* the user on whose behalf a suspended chat or ask-ai handler runs
OnBehalfOf(r) ==
    IF reqs[r].kind = "wsMessage" THEN conns[reqs[r].conn].userId ELSE reqs[r].userId

\* C27: a step of a chat frame or of an ask-ai request whose user is neither
\* the student nor the landlord of the conversation stores no Message and
\* pushes no frame.
C27_OnlyParticipantsAddMessages ==
    [][\A r \in ReqIds :
          (/\ reqs[r].kind \in {"wsMessage", "askAi"}
           /\ reqs'[r] # reqs[r]
           /\ OnBehalfOf(r) \notin {reqs[r].student_id, reqs[r].landlord_id})
          => (messages' = messages /\ sent' = sent)]_vars

\* C28: a user's isVerified is true exactly when its verificationStatus is
\* 'approved'
C28_VerifiedIffApproved ==
    \A u \in DOMAIN users :
        users[u].isVerified <=> users[u].verificationStatus = "approved"

\* C29: a delete-account request without a password is answered 400, one
\* with a password other than the account's is answered 401, and either
\* leaves every collection of the store as it was and starts no deletion.
C29_BadPasswordDeletesNothing ==
    [][\A pw \in Passwords \ {Password} :
          ("l1" \in DOMAIN users /\ DeleteAccount(Tok("l1"), pw)) =>
             /\ resp'.op = "POST /api/profile/delete-account"
             /\ resp'.status = IF pw = "" THEN 400 ELSE 401
             /\ store' = store
             /\ reqs' = reqs]_vars

\* l1 was just refused the deletion for a wrong password while the account,
\* its listing and a favorite and a view of the listing exist
C29_Witness ==
    /\ resp.op = "POST /api/profile/delete-account" /\ resp.status = 401
    /\ "l1" \in DOMAIN users
    /\ 1 \in DOMAIN properties /\ properties[1].landlord_id = "l1"
    /\ \E f \in DOMAIN favorites : f.property_id = 1 /\ CountDocuments(favorites, {f}) > 0
    /\ \E v \in DOMAIN views : v.property_id = 1 /\ CountDocuments(views, {v}) > 0
    /\ \A r \in ReqIds : reqs[r] = Idle


\* C30: when AuthForm receives the success response of a login or signup,
\* localStorage afterwards holds the token and the currentUser entry, the
\* latter being the text the next start-up parses into that user; and a
\* start-up that finds either entry missing removes both and leaves
\* currentUser null.
C30_SessionSurvivesReload ==
    [][/\ HandleSubmit_response("ok") =>
            /\ localStorage'.token = Tok(authForm.pending.user)
            /\ localStorage'.currentUser # NoString
            /\ localStorage'.currentUser.json
            /\ JSONparse(localStorage'.currentUser).uid = authForm.pending.user
       /\ (InitializeAuth /\ ~BothStored(localStorage.currentUser, localStorage.token)) =>
            /\ localStorage' = [token |-> NoToken, currentUser |-> NoString]
            /\ currentUser' = null]_vars
====
